---------------------------- MODULE Spec2Model ----------------------------
(***************************************************************************)
(* Model of the katello command line client's "system" subcommands         *)
(* (cli/src/katello/client/core/system.py).                                *)
(*                                                                         *)
(* One invocation of the CLI is: option validation (check_options), then   *)
(* the subcommand's run().  The remote server is modelled by the answers   *)
(* its API calls can give and by the asynchronous tasks it holds.          *)
(***************************************************************************)
EXTENDS Integers, Sequences, FiniteSets, TLC

\* ------------------------------------------------------------------ bounds

\* largest number of options one invocation supplies
MaxOpts == 5
\* task handles the server can hand out
MaxTasks == 1
\* largest number of package / group names in one list option
MaxPkgs == 2
\* the poll counter saturates here (the poll loop itself is unbounded)
MaxPolls == 2

\* ----------------------------------------------------------------- options

Commands ==
  { "list", "info", "packages", "tasks", "task_info", "releases", "facts",
    "register", "remove_deletion", "unregister", "subscribe", "subscriptions",
    "unsubscribe", "update", "report", "add_system_groups",
    "remove_system_groups", "add_custom_info", "view_custom_info",
    "update_custom_info", "remove_custom_info" }

\* the remote actions of the packages subcommand
remote_actions == { "install", "remove", "update", "install_groups", "remove_groups" }

\* the options each subcommand's setup_parser declares
CmdOpts(c) ==
  CASE c = "list" -> { "org", "environment", "pool_id" }
    [] c \in { "info", "tasks", "releases", "facts", "unregister" } ->
         { "org", "name", "uuid", "environment" }
    [] c = "packages" -> { "org", "name", "uuid", "environment" } \cup remote_actions
    [] c = "task_info" -> { "id" }
    [] c = "register" ->
         { "name", "org", "environment", "sla", "activationkey", "release", "fact" }
    [] c = "remove_deletion" -> { "uuid" }
    [] c = "subscribe" -> { "org", "name", "uuid", "pool", "quantity" }
    [] c = "subscriptions" -> { "org", "name", "uuid", "available" }
    [] c = "unsubscribe" -> { "org", "name", "uuid", "entitlement", "serial", "all" }
    [] c = "update" ->
         { "org", "name", "uuid", "environment", "new_name", "new_environment",
           "description", "location", "release", "sla" }
    [] c = "report" -> { "org", "environment", "format" }
    [] c \in { "add_system_groups", "remove_system_groups" } ->
         { "name", "uuid", "org", "system_group_names" }
    [] c \in { "add_custom_info", "remove_custom_info" } ->
         { "org", "environment", "name", "uuid", "keyname", "value" }
    [] c = "view_custom_info" -> { "org", "environment", "name", "uuid", "keyname" }
    [] c = "update_custom_info" ->
         { "org", "environment", "name", "uuid", "keyname", "current-value", "new-value" }

\* get_option: the value of a supplied option, None when it is not supplied
get_option(g, o) == IF o \in g THEN o ELSE "None"

\* --------------------------------------------------------------- validator
\* The option validator; g is the set of options supplied.

require(g, opts) == opts \subseteq g

require_at_least_one_of(g, opts) == g \cap opts # {}

require_one_of(g, opts) == Cardinality(g \cap opts) = 1

require_at_most_one_of(g, opts) == Cardinality(g \cap opts) <= 1

mutually_exclude(g, opts) == Cardinality(g \cap opts) <= 1

\* ----------------------------------------------------------- check_options
\* TRUE when the validator records no error.

ListCheck(g) == require(g, { "org" })

InfoCheckNoExclude(g) ==
  /\ require(g, { "org" })
  /\ require_at_least_one_of(g, { "name", "uuid" })
  /\ mutually_exclude(g, { "environment", "uuid" })

InfoCheckNoAtLeastOne(g) ==
  /\ require(g, { "org" })
  /\ mutually_exclude(g, { "name", "uuid" })
  /\ mutually_exclude(g, { "environment", "uuid" })

InfoCheck(g) ==
  /\ require(g, { "org" })
  /\ require_at_least_one_of(g, { "name", "uuid" })
  /\ mutually_exclude(g, { "name", "uuid" })
  /\ mutually_exclude(g, { "environment", "uuid" })

\* a bug: the remote actions are not limited to one
PackagesCheckAnyActions(g) ==
  /\ require(g, { "org" })
  /\ require_at_least_one_of(g, { "name", "uuid" })
  /\ mutually_exclude(g, { "name", "uuid" })
  /\ mutually_exclude(g, { "environment", "uuid" })

PackagesCheck(g) ==
  /\ require(g, { "org" })
  /\ require_at_least_one_of(g, { "name", "uuid" })
  /\ mutually_exclude(g, { "name", "uuid" })
  /\ mutually_exclude(g, { "environment", "uuid" })
  /\ require_at_most_one_of(g, remote_actions)

TasksCheck(g) ==
  /\ require(g, { "org" })
  /\ require_at_least_one_of(g, { "name", "uuid" })
  /\ mutually_exclude(g, { "name", "uuid" })
  /\ mutually_exclude(g, { "environment", "uuid" })

TaskInfoCheck(g) == require(g, { "id" })

ReleasesCheck(g) ==
  /\ require(g, { "org" })
  /\ require_one_of(g, { "name", "uuid", "environment" })
  /\ mutually_exclude(g, { "name", "uuid" })
  /\ mutually_exclude(g, { "environment", "uuid" })

FactsCheck(g) ==
  /\ require(g, { "org" })
  /\ require_at_least_one_of(g, { "name", "uuid" })
  /\ mutually_exclude(g, { "name", "uuid" })
  /\ mutually_exclude(g, { "environment", "uuid" })

RegisterCheck(g) ==
  /\ require(g, { "name", "org" })
  /\ require_at_most_one_of(g, { "activationkey", "environment" })

RemoveDeletionCheck(g) == require(g, { "uuid" })

UnregisterCheck(g) ==
  /\ require(g, { "org" })
  /\ require_at_least_one_of(g, { "name", "uuid" })
  /\ mutually_exclude(g, { "name", "uuid" })
  /\ mutually_exclude(g, { "environment", "uuid" })

SubscribeCheck(g) ==
  /\ require(g, { "org", "pool" })
  /\ require_at_least_one_of(g, { "name", "uuid" })
  /\ mutually_exclude(g, { "name", "uuid" })

SubscriptionsCheck(g) ==
  /\ require(g, { "org" })
  /\ require_at_least_one_of(g, { "name", "uuid" })
  /\ mutually_exclude(g, { "name", "uuid" })

UnsubscribeCheck(g) ==
  /\ require(g, { "org" })
  /\ require_at_least_one_of(g, { "name", "uuid" })
  /\ mutually_exclude(g, { "name", "uuid" })
  /\ require_one_of(g, { "entitlement", "serial", "all" })

UpdateCheck(g) ==
  /\ require(g, { "org" })
  /\ require_at_least_one_of(g, { "name", "uuid" })
  /\ mutually_exclude(g, { "name", "uuid" })
  /\ mutually_exclude(g, { "environment", "uuid" })

ReportCheck(g) == require(g, { "org" })

AddSystemGroupsCheck(g) ==
  /\ require(g, { "org", "system_group_names" })
  /\ require_at_least_one_of(g, { "name", "uuid" })
  /\ mutually_exclude(g, { "name", "uuid" })

RemoveSystemGroupsCheck(g) ==
  /\ require(g, { "org", "system_group_names" })
  /\ require_at_least_one_of(g, { "name", "uuid" })
  /\ mutually_exclude(g, { "name", "uuid" })

AddCustomInfoCheck(g) ==
  /\ require(g, { "org", "keyname", "value" })
  /\ require_at_least_one_of(g, { "name", "uuid" })
  /\ mutually_exclude(g, { "name", "uuid" })
  /\ mutually_exclude(g, { "environment", "uuid" })

ViewCustomInfoCheck(g) ==
  /\ require(g, { "org" })
  /\ require_at_least_one_of(g, { "name", "uuid" })
  /\ mutually_exclude(g, { "name", "uuid" })
  /\ mutually_exclude(g, { "environment", "uuid" })

UpdateCustomInfoCheck(g) ==
  /\ require(g, { "org", "keyname", "current-value", "new-value" })
  /\ require_at_least_one_of(g, { "name", "uuid" })
  /\ mutually_exclude(g, { "name", "uuid" })
  /\ mutually_exclude(g, { "environment", "uuid" })

RemoveCustomInfoCheck(g) ==
  /\ require(g, { "org" })
  /\ require_at_least_one_of(g, { "name", "uuid" })
  /\ mutually_exclude(g, { "name", "uuid" })
  /\ mutually_exclude(g, { "environment", "uuid" })

\* the subcommand's check_options on the options supplied
check_options(c, g) ==
  CASE c = "list" -> ListCheck(g)
    [] c = "info" -> InfoCheck(g)
    [] c = "packages" -> PackagesCheck(g)
    [] c = "tasks" -> TasksCheck(g)
    [] c = "task_info" -> TaskInfoCheck(g)
    [] c = "releases" -> ReleasesCheck(g)
    [] c = "facts" -> FactsCheck(g)
    [] c = "register" -> RegisterCheck(g)
    [] c = "remove_deletion" -> RemoveDeletionCheck(g)
    [] c = "unregister" -> UnregisterCheck(g)
    [] c = "subscribe" -> SubscribeCheck(g)
    [] c = "subscriptions" -> SubscriptionsCheck(g)
    [] c = "unsubscribe" -> UnsubscribeCheck(g)
    [] c = "update" -> UpdateCheck(g)
    [] c = "report" -> ReportCheck(g)
    [] c = "add_system_groups" -> AddSystemGroupsCheck(g)
    [] c = "remove_system_groups" -> RemoveSystemGroupsCheck(g)
    [] c = "add_custom_info" -> AddCustomInfoCheck(g)
    [] c = "view_custom_info" -> ViewCustomInfoCheck(g)
    [] c = "update_custom_info" -> UpdateCustomInfoCheck(g)
    [] c = "remove_custom_info" -> RemoveCustomInfoCheck(g)

\* ---------------------------------------------------------------- outcomes
\* What one run() did: the API calls it issued in order, the messages it
\* printed in order, the value it returned (exit), the exception it let
\* escape (raised), what the system lookup answered (found), and the first
\* remote error a request failed with (err) with the position of that request
\* among the calls (at), and in order the answers of the requests whose answer
\* run() inspects (answers).

Call(n) == [name |-> n, arg |-> {}]

CallA(n, a) == [name |-> n, arg |-> a]

Msg(k, t) == <<k, t>>

Ret(c, o, e) ==
  [calls |-> c, out |-> o, exit |-> e, raised |-> "none", found |-> "unset",
   err |-> "none", at |-> 0, answers |-> <<>>]

Throw(c, o, x) ==
  [calls |-> c, out |-> o, exit |-> "unset", raised |-> x, found |-> "unset",
   err |-> "none", at |-> 0, answers |-> <<>>]

\* the exception a failed request or a failed resolution raises
Exc(r) ==
  CASE r = "e404" -> "ServerRequestError404"
    [] r = "e500" -> "ServerRequestError500"
    [] OTHER -> "ApiDataError"

\* the statuses of a remote error
RemoteErrors == { "e404", "e500" }

\* the request c fails with the remote error e, which escapes
Fail(c, e) == [Throw(<<c>>, <<>>, Exc(e)) EXCEPT !.err = e, !.at = 1]

\* the calls cs were issued before the outcomes S
Pre(cs, S) ==
  { [r EXCEPT !.calls = cs \o r.calls, !.at = IF @ = 0 THEN 0 ELSE @ + Len(cs)] : r \in S }

WithFound(f, S) == { [r EXCEPT !.found = f] : r \in S }

\* a request either fails with a remote error or answers, and S follows
ApiCall(c, S) == { Fail(c, e) : e \in RemoteErrors } \cup Pre(<<c>>, S)

\* a request whose answer is one of DOMAIN K; K[r] follows the answer r
ApiAnswer(c, K) ==
  { Fail(c, e) : e \in RemoteErrors }
    \cup UNION { { [x EXCEPT !.answers = <<r>> \o @] : x \in Pre(<<c>>, K[r]) }
                 : r \in DOMAIN K }

\* what the lookup of a system can answer
GetSystemResults == { "one", "zero", "many", "e404", "e500" }

\* the system reference the lookup is given
SysRef(g) == IF "uuid" \in g THEN { "uuid" } ELSE { get_option(g, "name") }

\* get_system: resolves the reference to exactly one system, and raises otherwise
get_system(ref, S) ==
  UNION { CASE s = "one" -> WithFound(s, Pre(<<CallA("get_system", ref)>>, S))
            [] s \in RemoteErrors -> WithFound(s, { Fail(CallA("get_system", ref), s) })
            [] OTHER -> WithFound(s, { Throw(<<CallA("get_system", ref)>>, <<>>, Exc(s)) })
          : s \in GetSystemResults }

\* get_environment: resolves an environment name (None: the default one)
get_environment(env, S) ==
  UNION { CASE e = "one" -> Pre(<<CallA("get_environment", { env })>>, S)
            [] e \in RemoteErrors -> { Fail(CallA("get_environment", { env }), e) }
            [] OTHER -> { Throw(<<CallA("get_environment", { env })>>, <<>>, Exc(e)) }
          : e \in { "one", "zero", "e404", "e500" } }

\* test_record: prints the success or the failure message for a record
test_record(rec, okMsg, failMsg) ==
  IF rec = "record" THEN <<okMsg>> ELSE <<failMsg>>

\* --------------------------------------------------------------------- run
\* Each run(g) is the set of outcomes of the subcommand's run() on the
\* options g, one per combination of answers the server can give.

ListRun(g) ==
  IF "environment" \notin g
    THEN ApiCall(Call("systems_by_org"), { Ret(<<>>, <<Msg("Systems List", "org")>>, "EX_OK") })
    ELSE get_environment("environment",
           ApiCall(Call("systems_by_env"),
                   { Ret(<<>>, <<Msg("Systems List", "environment")>>, "EX_OK") }))

InfoRun(g) ==
  get_system(SysRef(g),
    ApiCall(Call("get_custom_info"),
            { Ret(<<>>, <<Msg("System Information", get_option(g, "name"))>>, "EX_OK") }))

TasksRun(g) ==
  get_environment(get_option(g, "environment"),
    ApiCall(CallA("tasks", SysRef(g)), { Ret(<<>>, <<Msg("Remote tasks", "")>>, "EX_OK") }))

ReleasesRun(g) ==
  LET printed(src) == { Ret(<<>>, <<Msg("Available releases", src)>>, "EX_OK") }
      byName ==
        IF "name" \in g
          THEN get_system({ "name" }, ApiCall(CallA("releases_for_system", { "name" }),
                                              printed("system name")))
          ELSE get_environment(get_option(g, "environment"),
                 ApiCall(Call("releases_for_environment"), printed("environment")))
  IN  IF "uuid" \in g
        THEN ApiCall(CallA("releases_for_system", { "uuid" }), byName)
        ELSE byName

FactsRun(g) ==
  get_system(SysRef(g),
             { Ret(<<>>, <<Msg("System Facts", get_option(g, "name"))>>, "EX_OK") })

RegisterRun(g) ==
  LET reg == ApiAnswer(Call("register"),
               [r \in { "record", "None" } |-> { Ret(<<>>,
                                test_record(r, Msg("Successfully registered system", "name"),
                                               Msg("Could not register system", "name")),
                                "None") }])
  IN  IF "environment" \in g THEN get_environment("environment", reg) ELSE reg

RemoveDeletionRun(g) ==
  ApiCall(CallA("remove_consumer_deletion_record", { "uuid" }),
          { Ret(<<>>, <<Msg("Successfully removed deletion record", "uuid")>>, "EX_OK") })

UnregisterRunIgnoresNotFound(g) ==
  LET gs == CallA("get_system", SysRef(g))
      unreg == ApiCall(Call("unregister"),
                 { Ret(<<>>, <<Msg("Successfully unregistered System",
                                   get_option(g, "name"))>>, "EX_OK") })
  IN  UNION { CASE s \in { "one", "e404" } -> WithFound(s, Pre(<<gs>>, unreg))
                [] s = "e500" -> WithFound(s, { Fail(gs, s) })
                [] OTHER -> WithFound(s, { Throw(<<gs>>, <<>>, Exc(s)) })
              : s \in GetSystemResults }

\* a bug: a lookup that was not found is tried once more
UnregisterRunRetriesLookup(g) ==
  LET caught == { r \in get_system(SysRef(g), {}) : r.raised = "ServerRequestError404" }
  IN  { IF r \in caught
          THEN [r EXCEPT !.calls = r.calls \o r.calls, !.raised = "none",
                         !.exit = "EX_DATAERR"]
          ELSE r
        : r \in get_system(SysRef(g),
                  ApiCall(Call("unregister"),
                    { Ret(<<>>, <<Msg("Successfully unregistered System",
                                      get_option(g, "name"))>>, "EX_OK") })) }

\* a bug: every remote error of the lookup is caught, not only 404
UnregisterRunCatchesAll(g) ==
  LET caught == { r \in get_system(SysRef(g), {}) : r.raised \in { Exc(e) : e \in RemoteErrors } }
  IN  { IF r \in caught THEN [r EXCEPT !.raised = "none", !.exit = "EX_DATAERR"] ELSE r
        : r \in get_system(SysRef(g),
                  ApiCall(Call("unregister"),
                    { Ret(<<>>, <<Msg("Successfully unregistered System",
                                      get_option(g, "name"))>>, "EX_OK") })) }

UnregisterRun(g) ==
  LET caught == { r \in get_system(SysRef(g), {}) : r.raised = "ServerRequestError404" }
  IN  { IF r \in caught THEN [r EXCEPT !.raised = "none", !.exit = "EX_DATAERR"] ELSE r
        : r \in get_system(SysRef(g),
                  ApiCall(Call("unregister"),
                    { Ret(<<>>, <<Msg("Successfully unregistered System",
                                      get_option(g, "name"))>>, "EX_OK") })) }

\* a bug: the subscribe request is sent twice
SubscribeRunTwice(g) ==
  get_system(SysRef(g),
    ApiCall(Call("subscribe"),
      ApiCall(Call("subscribe"),
        { Ret(<<>>, <<Msg("Successfully subscribed System", get_option(g, "name"))>>,
              "EX_OK") })))

SubscribeRun(g) ==
  get_system(SysRef(g),
    ApiCall(Call("subscribe"),
      { Ret(<<>>, <<Msg("Successfully subscribed System", get_option(g, "name"))>>,
            "EX_OK") }))

SubscriptionsRun(g) ==
  LET listing ==
        IF "available" \notin g
          THEN ApiAnswer(Call("subscriptions"),
                 [r \in { "None", "empty", "some" } |-> { Ret(<<>>,
                   <<IF r = "some"
                       THEN Msg("Current Subscriptions for System", get_option(g, "name"))
                       ELSE Msg("No Subscriptions found for System", get_option(g, "name"))>>,
                   "EX_OK") }])
          ELSE ApiAnswer(Call("available_pools"),
                 [r \in { "None", "empty", "some" } |-> { Ret(<<>>,
                   <<IF r = "some"
                       THEN Msg("Available Subscriptions for System", get_option(g, "name"))
                       ELSE Msg("No Pools found for System", get_option(g, "name"))>>,
                   "EX_OK") }])
  IN  IF "uuid" \notin g THEN get_system({ get_option(g, "name") }, listing) ELSE listing

\* a bug: the serial and the entitlement branches are swapped
UnsubscribeCallsSwapped(g) ==
  IF "all" \in g THEN <<Call("unsubscribe_all")>>
  ELSE IF "serial" \in g THEN <<Call("unsubscribe")>>
  ELSE IF "entitlement" \in g THEN <<Call("unsubscribe_by_serial")>>
  ELSE <<>>

\* the unsubscribe request the options select
UnsubscribeCalls(g) ==
  IF "all" \in g THEN <<Call("unsubscribe_all")>>
  ELSE IF "serial" \in g THEN <<Call("unsubscribe_by_serial")>>
  ELSE IF "entitlement" \in g THEN <<Call("unsubscribe")>>
  ELSE <<>>

UnsubscribeRun(g) ==
  LET done == { Ret(<<>>, <<Msg("Successfully unsubscribed System", get_option(g, "name"))>>,
                    "EX_OK") }
      unsub == IF UnsubscribeCalls(g) = <<>> THEN done
               ELSE ApiCall(UnsubscribeCalls(g)[1], done)
  IN  IF "uuid" \notin g THEN get_system({ get_option(g, "name") }, unsub) ELSE unsub

\* the fields of the update request
UpdateFields(g) ==
  { f \in { "new_name", "description", "location", "release", "sla", "new_environment" }
      : f \in g }

UpdateRun(g) ==
  LET upd == ApiAnswer(CallA("update", UpdateFields(g)),
               [r \in { "record", "None" } |-> { Ret(<<>>,
                                test_record(r, Msg("Successfully updated system", "name"),
                                               Msg("Could not update system", "name")),
                                "None") }])
      again == IF "new_environment" \in g
                 THEN get_environment("new_environment", upd)
                 ELSE upd
  IN  get_system(SysRef(g), get_environment(get_option(g, "new_environment"), again))

ReportRun(g) ==
  LET shown == { Ret(<<>>, <<Msg("report", f)>>, "EX_OK")
                 : f \in IF "format" \in g THEN { "saved pdf", "printed" } ELSE { "printed" } }
  IN  IF "environment" \notin g
        THEN ApiCall(Call("report_by_org"), shown)
        ELSE get_environment("environment", ApiCall(Call("report_by_env"), shown))

\* the query of the system-group subcommands: the name and the uuid supplied
GroupQuery(g) == g \cap { "name", "uuid" }

AddSystemGroupsRunNoLookupCheck(g) ==
  ApiAnswer(CallA("systems_by_org", GroupQuery(g)),
    [s \in { "None", "zero", "one", "many" } |-> WithFound(s,
      ApiAnswer(Call("system_groups"), [gr \in { "None", "list" } |->
          IF gr = "None" THEN { Ret(<<>>, <<>>, "EX_DATAERR") }
          ELSE ApiAnswer(Call("add_system_groups"), [r \in { "record", "None" } |->
                   IF r # "None"
                     THEN { Ret(<<>>, <<Msg("Successfully added system groups to system",
                                           "name")>>, "EX_OK") }
                     ELSE { Ret(<<>>, <<>>, "EX_DATAERR") }])]))])

AddSystemGroupsRun(g) ==
  ApiAnswer(CallA("systems_by_org", GroupQuery(g)),
    [s \in { "None", "zero", "one", "many" } |-> WithFound(s,
      IF s \in { "None", "zero" } THEN { Ret(<<>>, <<>>, "EX_DATAERR") }
      ELSE IF s = "many"
        THEN { Ret(<<>>, <<Msg("OPT_ERR_SYSTEM_AMBIGUOUS", "")>>, "EX_DATAERR") }
      ELSE ApiAnswer(Call("system_groups"), [gr \in { "None", "list" } |->
               IF gr = "None" THEN { Ret(<<>>, <<>>, "EX_DATAERR") }
               ELSE ApiAnswer(Call("add_system_groups"), [r \in { "record", "None" } |->
                        IF r # "None"
                          THEN { Ret(<<>>,
                                     <<Msg("Successfully added system groups to system",
                                           "name")>>, "EX_OK") }
                          ELSE { Ret(<<>>, <<>>, "EX_DATAERR") }])]))])

\* a bug: the answer of the remove request is not tested
RemoveSystemGroupsRunIgnoresAnswer(g) ==
  ApiAnswer(CallA("systems_by_org", GroupQuery(g)),
    [s \in { "None", "zero", "one", "many" } |-> WithFound(s,
      IF s \in { "None", "zero" } THEN { Ret(<<>>, <<>>, "EX_DATAERR") }
      ELSE IF s = "many"
        THEN { Ret(<<>>, <<Msg("OPT_ERR_SYSTEM_AMBIGUOUS", "")>>, "EX_DATAERR") }
      ELSE ApiAnswer(Call("system_groups"), [gr \in { "None", "list" } |->
               IF gr = "None" THEN { Ret(<<>>, <<>>, "EX_DATAERR") }
               ELSE ApiAnswer(Call("remove_system_groups"), [r \in { "record", "None" } |->
                        { Ret(<<>>,
                              <<Msg("Successfully removed system groups from system",
                                    "name")>>, "EX_OK") }])]))])

RemoveSystemGroupsRun(g) ==
  ApiAnswer(CallA("systems_by_org", GroupQuery(g)),
    [s \in { "None", "zero", "one", "many" } |-> WithFound(s,
      IF s \in { "None", "zero" } THEN { Ret(<<>>, <<>>, "EX_DATAERR") }
      ELSE IF s = "many"
        THEN { Ret(<<>>, <<Msg("OPT_ERR_SYSTEM_AMBIGUOUS", "")>>, "EX_DATAERR") }
      ELSE ApiAnswer(Call("system_groups"), [gr \in { "None", "list" } |->
               IF gr = "None" THEN { Ret(<<>>, <<>>, "EX_DATAERR") }
               ELSE ApiAnswer(Call("remove_system_groups"), [r \in { "record", "None" } |->
                        IF r # "None"
                          THEN { Ret(<<>>,
                                     <<Msg("Successfully removed system groups from system",
                                           "name")>>, "EX_OK") }
                          ELSE { Ret(<<>>, <<>>, "EX_DATAERR") }])]))])

\* the system the custom-info messages name
ident(g) == IF "uuid" \in g THEN "uuid" ELSE get_option(g, "name")

\* response[keyname][0] == value, on the three shapes of a response
AddCustomInfoRun(g) ==
  get_system(SysRef(g),
    ApiAnswer(Call("add_custom_info"), [r \in { "match", "mismatch", "empty" } |->
        CASE r = "match" ->
               { Ret(<<>>, <<Msg("Successfully added Custom Information", ident(g))>>, "None") }
          [] r = "mismatch" ->
               { Ret(<<>>, <<Msg("Could not add Custom Information", ident(g))>>, "None") }
          [] OTHER -> { Throw(<<>>, <<>>, "KeyError") }]))

ViewCustomInfoRun(g) ==
  get_system(SysRef(g),
    ApiCall(Call("get_custom_info"),
            { Ret(<<>>, <<Msg("Custom Information For System", ident(g))>>, "None") }))

UpdateCustomInfoRun(g) ==
  get_system(SysRef(g),
    ApiAnswer(Call("update_custom_info"), [r \in { "match", "mismatch", "empty" } |->
        CASE r = "match" ->
               { Ret(<<>>, <<Msg("Successfully updated Custom Information", ident(g))>>,
                     "None") }
          [] r = "mismatch" ->
               { Ret(<<>>, <<Msg("Could not update Custom Information", ident(g))>>, "None") }
          [] OTHER -> { Throw(<<>>, <<>>, "KeyError") }]))

RemoveCustomInfoRun(g) ==
  get_system(SysRef(g),
    ApiAnswer(Call("remove_custom_info"), [r \in { "true", "false" } |->
        IF r = "true"
          THEN { Ret(<<>>, <<Msg("Successfully removed Custom Information", ident(g))>>,
                     "None") }
          ELSE { Ret(<<>>, <<Msg("Could not remove Custom Information", ident(g))>>,
                     "None") }]))

\* the exit code of the process for what run() returned: a run() that falls
\* off its end returns None, and the process then exits with 0
ExitCode(e) == IF e = "None" THEN "EX_OK" ELSE e

\* ------------------------------------------------------------------- tasks

Handles == 1 .. MaxTasks

\* the result descriptions the server can give a finished task
Descs == { "d1", "d2" }

Terminal == { "succeeded", "failed" }

\* a task as the server holds it; state "none": the handle is not in use
NoServerTask == [state |-> "none", desc |-> ""]

\* the client's snapshot of a task
NoTask == [id |-> 0, state |-> "none", desc |-> "", result |-> ""]

Snapshot(h, t) == [id |-> h, state |-> t.state, desc |-> t.desc, result |-> ""]

\* SystemAsyncTask.succeeded
succeeded(snap) == snap.state = "succeeded"

\* SystemAsyncTask.get_result_description
get_result_description(snap) == snap.desc

\* ---------------------------------------------------------------- packages

\* the names a list option of n entries carries
PkgNames(n) == { ToString(i) : i \in 1 .. n }

\* the request one remote action issues; update with --all sends no names
ActionCall(a, n) ==
  CASE a = "install" -> CallA("install_packages", PkgNames(IF n = 0 THEN 1 ELSE n))
    [] a = "remove" -> CallA("remove_packages", PkgNames(IF n = 0 THEN 1 ELSE n))
    [] a = "update" -> CallA("update_packages", PkgNames(n))
    [] a = "install_groups" -> CallA("install_package_groups", PkgNames(IF n = 0 THEN 1 ELSE n))
    [] a = "remove_groups" -> CallA("remove_package_groups", PkgNames(IF n = 0 THEN 1 ELSE n))

TaskCreatingCalls ==
  { "install_packages", "remove_packages", "update_packages", "install_package_groups",
    "remove_package_groups" }

\* the five ifs of run(), in their order
ActionOrder == <<"install", "remove", "update", "install_groups", "remove_groups">>

\* a bug: one request per package name
PackagesActionsPerName(g, n) ==
  LET one(i) == IF ActionOrder[i] \in g
                  THEN [k \in 1 .. (IF n = 0 THEN 1 ELSE n) |->
                          CallA(ActionCall(ActionOrder[i], n).name, { ToString(k) })]
                  ELSE <<>>
  IN  one(1) \o one(2) \o one(3) \o one(4) \o one(5)

\* the task-creating requests run() issues for the options g
PackagesActions(g, n) ==
  LET one(i) == IF ActionOrder[i] \in g THEN <<ActionCall(ActionOrder[i], n)>> ELSE <<>>
  IN  one(1) \o one(2) \o one(3) \o one(4) \o one(5)

\* The server's side of the task-creating requests cs: each one fails, or
\* creates a pending task under a fresh handle, which the client keeps.
RECURSIVE IssueCreates(_, _, _, _)
IssueCreates(cs, tks, snap, issued) ==
  IF cs = <<>>
    THEN { [tasks |-> tks, task |-> snap, calls |-> issued, raised |-> "none",
            err |-> "none", at |-> 0] }
    ELSE LET now == Append(issued, Head(cs))
             free == { h \in Handles : tks[h].state = "none" }
         IN  { [tasks |-> tks, task |-> snap, calls |-> now, raised |-> Exc(e),
                err |-> e, at |-> Len(now)]
               : e \in RemoteErrors }
             \cup
             IF free = {} THEN {}
             ELSE LET h == CHOOSE x \in free : \A y \in free : x <= y
                      t == [state |-> "pending", desc |-> ""]
                  IN  IssueCreates(Tail(cs), [tks EXCEPT ![h] = t], Snapshot(h, t), now)

\* a bug: the result is read without waiting for the task
PackagesAfterCreateNoWait(snap) == IF snap # NoTask THEN "report" ELSE "list"

\* a bug: the installed packages are listed whether or not there is a task
PackagesAfterCreateAlwaysLists(snap) == IF snap # NoTask THEN "list" ELSE "list"

\* if task: wait for it; otherwise list the installed packages
PackagesAfterCreate(snap) == IF snap # NoTask THEN "poll" ELSE "list"

\* the listing of the installed packages
PackagesListing ==
  ApiCall(Call("packages"), { Ret(<<>>, <<Msg("Package Information", "")>>, "EX_OK") })

\* bugs in the report of the finished task
PackagesReportInverted(snap) ==
  IF ~succeeded(snap)
    THEN Ret(<<>>, <<Msg("Remote action finished:", ""),
                     Msg("result_description", get_result_description(snap))>>, "EX_OK")
    ELSE Ret(<<>>, <<Msg("Remote action failed:", ""),
                     Msg("result_description", get_result_description(snap))>>, "EX_DATAERR")

PackagesReportRaises(snap) ==
  IF succeeded(snap)
    THEN Ret(<<>>, <<Msg("Remote action finished:", ""),
                     Msg("result_description", get_result_description(snap))>>, "EX_OK")
    ELSE Throw(<<>>, <<Msg("result_description", get_result_description(snap))>>,
               "ApiDataError")

PackagesReportNoExit(snap) ==
  IF succeeded(snap)
    THEN Ret(<<>>, <<Msg("Remote action finished:", ""),
                     Msg("result_description", get_result_description(snap))>>, "EX_OK")
    ELSE Ret(<<>>, <<Msg("Remote action failed:", ""),
                     Msg("result_description", get_result_description(snap))>>, "None")

\* the report of the finished task
PackagesReport(snap) ==
  IF succeeded(snap)
    THEN Ret(<<>>, <<Msg("Remote action finished:", ""),
                     Msg("result_description", get_result_description(snap))>>, "EX_OK")
    ELSE Ret(<<>>, <<Msg("Remote action failed:", ""),
                     Msg("result_description", get_result_description(snap))>>, "EX_DATAERR")

\* a bug: the description is overwritten instead of the result column
TaskInfoRecordOverwrites(snap) == [snap EXCEPT !.desc = "\n" \o snap.desc]

\* task['result'] = "\n" + task['result_description']
TaskInfoRecord(snap) == [snap EXCEPT !.result = "\n" \o snap.desc]

\* ------------------------------------------------------------------- state

VARIABLES
  cmd,          \* the subcommand of the current invocation
  given,        \* the options it was given
  listLen,      \* the number of names in its list option (0: update --all)
  idArg,        \* the value of --id
  pc,           \* "check", "run", "list", "poll", "report", "done"
  calls,        \* the API calls issued in this invocation, status polls aside
  out,          \* the messages printed in this invocation
  exit,         \* what run() returned; "usage": rejected by validation
  raised,       \* the exception that ended the invocation
  found,        \* what the lookup of the system answered
  err,          \* the status of the first remote error a request failed with
  at,           \* the number of calls issued up to the request that failed
  answers,      \* the answers run() inspected, in order
  task,         \* the client's snapshot of its task
  polls,        \* status fetches of the poll loop, saturating at MaxPolls
  pollFailed,   \* a status fetch of the poll loop failed
  tasks,        \* the server's tasks
  seenTerminal  \* per handle, the first terminal snapshot a client fetched

vars == <<cmd, given, listLen, idArg, pc, calls, out, exit, raised, found, err, at, answers,
          task, polls, pollFailed, tasks, seenTerminal>>

invocation == <<cmd, given, listLen, idArg>>

NoObs == [state |-> "none", desc |-> "", again |-> FALSE]

\* the option sets, list lengths and task ids the command lines carry
OptionSets(c) == { g \in SUBSET CmdOpts(c) : Cardinality(g) <= MaxOpts }

ListLens(c, g) ==
  IF c = "packages" /\ g \cap remote_actions # {}
    THEN (IF "update" \in g THEN 0 .. MaxPkgs ELSE 1 .. MaxPkgs)
    ELSE { 1 }

TaskIds(c, g) == IF c = "task_info" /\ "id" \in g THEN Handles ELSE { 1 }

Start(c, g, n, i) ==
  /\ cmd' = c
  /\ given' = g
  /\ listLen' = n
  /\ idArg' = i
  /\ pc' = "check"
  /\ calls' = <<>>
  /\ out' = <<>>
  /\ exit' = "unset"
  /\ raised' = "none"
  /\ found' = "unset"
  /\ err' = "none"
  /\ at' = 0
  /\ answers' = <<>>
  /\ task' = NoTask
  /\ polls' = 0
  /\ pollFailed' = FALSE

Init ==
  /\ cmd = "none"
  /\ given = {}
  /\ listLen = 1
  /\ idArg = 1
  /\ pc = "idle"
  /\ calls = <<>>
  /\ out = <<>>
  /\ exit = "unset"
  /\ raised = "none"
  /\ found = "unset"
  /\ err = "none"
  /\ at = 0
  /\ answers = <<>>
  /\ task = NoTask
  /\ polls = 0
  /\ pollFailed = FALSE
  /\ tasks = [h \in Handles |-> NoServerTask]
  /\ seenTerminal = [h \in Handles |-> NoObs]

\* ----------------------------------------------------------------- actions

\* the user runs a command line
Invoke ==
  /\ pc = "idle"
  /\ \E c \in Commands : \E g \in OptionSets(c) :
       \E n \in ListLens(c, g) : \E i \in TaskIds(c, g) : Start(c, g, n, i)
  /\ UNCHANGED <<tasks, seenTerminal>>

\* the process of a finished invocation exits; nothing of it is kept
Exit ==
  /\ pc = "done"
  /\ cmd' = "none"
  /\ given' = {}
  /\ listLen' = 1
  /\ idArg' = 1
  /\ pc' = "idle"
  /\ calls' = <<>>
  /\ out' = <<>>
  /\ exit' = "unset"
  /\ raised' = "none"
  /\ found' = "unset"
  /\ err' = "none"
  /\ at' = 0
  /\ answers' = <<>>
  /\ task' = NoTask
  /\ polls' = 0
  /\ pollFailed' = FALSE
  /\ UNCHANGED <<tasks, seenTerminal>>

\* option validation: an error ends the invocation before run()
CheckOptions ==
  /\ pc = "check"
  /\ IF check_options(cmd, given)
       THEN pc' = "run" /\ exit' = exit
       ELSE pc' = "done" /\ exit' = "usage"
  /\ UNCHANGED <<invocation, calls, out, raised, found, err, at, answers, task, polls,
                 pollFailed, tasks, seenTerminal>>

\* run() of a subcommand that holds no task: one of its outcomes
Finish(c, S) ==
  /\ pc = "run"
  /\ cmd = c
  /\ \E r \in S :
       /\ calls' = r.calls
       /\ out' = r.out
       /\ exit' = r.exit
       /\ raised' = r.raised
       /\ found' = r.found
       /\ err' = r.err
       /\ at' = r.at
       /\ answers' = r.answers
  /\ pc' = "done"
  /\ UNCHANGED <<invocation, task, polls, pollFailed, tasks, seenTerminal>>

List == Finish("list", ListRun(given))

Info == Finish("info", InfoRun(given))

Tasks == Finish("tasks", TasksRun(given))

Releases == Finish("releases", ReleasesRun(given))

Facts == Finish("facts", FactsRun(given))

Register == Finish("register", RegisterRun(given))

RemoveDeletion == Finish("remove_deletion", RemoveDeletionRun(given))

Unregister == Finish("unregister", UnregisterRun(given))

Subscribe == Finish("subscribe", SubscribeRun(given))

Subscriptions == Finish("subscriptions", SubscriptionsRun(given))

Unsubscribe == Finish("unsubscribe", UnsubscribeRun(given))

Update == Finish("update", UpdateRun(given))

Report == Finish("report", ReportRun(given))

AddSystemGroups == Finish("add_system_groups", AddSystemGroupsRun(given))

RemoveSystemGroups == Finish("remove_system_groups", RemoveSystemGroupsRun(given))

AddCustomInfo == Finish("add_custom_info", AddCustomInfoRun(given))

ViewCustomInfo == Finish("view_custom_info", ViewCustomInfoRun(given))

UpdateCustomInfo == Finish("update_custom_info", UpdateCustomInfoRun(given))

RemoveCustomInfo == Finish("remove_custom_info", RemoveCustomInfoRun(given))

\* a client that fetched the snapshot snap of a task remembers the first
\* terminal one, and that the task was fetched again after it
Observe(snap) ==
  IF seenTerminal[snap.id] # NoObs
    THEN [seenTerminal EXCEPT ![snap.id].again = TRUE]
    ELSE IF snap.state \in Terminal
      THEN [seenTerminal EXCEPT
              ![snap.id] = [state |-> snap.state, desc |-> snap.desc, again |-> FALSE]]
      ELSE seenTerminal

\* packages, up to the wait for the task: the lookup of the system, then the
\* task-creating requests
InstalledPackages ==
  /\ pc = "run"
  /\ cmd = "packages"
  /\ \E s \in get_system(SysRef(given), { Ret(<<>>, <<>>, "unset") }) :
       /\ found' = s.found
       /\ IF s.raised # "none"
            THEN /\ calls' = s.calls
                 /\ raised' = s.raised
                 /\ err' = s.err
                 /\ at' = s.at
                 /\ pc' = "done"
                 /\ UNCHANGED <<out, task, tasks>>
            ELSE \E r \in IssueCreates(PackagesActions(given, listLen), tasks, NoTask, <<>>) :
                   /\ calls' = s.calls \o r.calls
                   /\ raised' = r.raised
                   /\ err' = r.err
                   /\ at' = IF r.at = 0 THEN 0 ELSE Len(s.calls) + r.at
                   /\ tasks' = r.tasks
                   /\ task' = r.task
                   /\ IF r.raised # "none"
                        THEN pc' = "done" /\ out' = out
                        ELSE /\ pc' = PackagesAfterCreate(r.task)
                             /\ out' = IF r.task # NoTask
                                         THEN <<Msg("Performing remote action",
                                                    ToString(r.task.id))>>
                                         ELSE out
  /\ UNCHANGED <<invocation, exit, answers, polls, pollFailed, seenTerminal>>

\* packages without a remote action: the installed packages are listed
InstalledPackagesList ==
  /\ pc = "list"
  /\ \E r \in PackagesListing :
       /\ calls' = calls \o r.calls
       /\ out' = out \o r.out
       /\ exit' = r.exit
       /\ raised' = r.raised
       /\ err' = r.err
       /\ at' = IF r.at = 0 THEN 0 ELSE Len(calls) + r.at
  /\ pc' = "done"
  /\ UNCHANGED <<invocation, found, answers, task, polls, pollFailed, tasks, seenTerminal>>

\* wait_for_async_task, a status fetch that answers: the snapshot is
\* replaced, and the loop ends when it is terminal
StatusFetched ==
  /\ pc = "poll"
  /\ task' = Snapshot(task.id, tasks[task.id])
  /\ polls' = IF polls < MaxPolls THEN polls + 1 ELSE polls
  /\ seenTerminal' = Observe(task')
  /\ pc' = IF task'.state \in Terminal THEN "report" ELSE "poll"
  /\ UNCHANGED <<invocation, calls, out, exit, raised, found, err, at, answers, pollFailed,
                 tasks>>

\* wait_for_async_task, a status fetch that fails: the error ends the invocation
StatusFailed ==
  /\ pc = "poll"
  /\ \E e \in RemoteErrors : raised' = Exc(e) /\ err' = e
  /\ at' = Len(calls)
  /\ pollFailed' = TRUE
  /\ pc' = "done"
  /\ UNCHANGED <<invocation, calls, out, exit, found, answers, task, polls, seenTerminal,
                 tasks>>

\* wait_for_async_task: one turn of the poll loop
WaitForAsyncTask == StatusFetched \/ StatusFailed

\* packages, after the wait: the result of the task is reported
InstalledPackagesReport ==
  /\ pc = "report"
  /\ LET r == PackagesReport(task)
     IN  /\ out' = out \o r.out
         /\ exit' = r.exit
         /\ raised' = r.raised
  /\ pc' = "done"
  /\ UNCHANGED <<invocation, calls, found, err, at, answers, task, polls, pollFailed, tasks,
                 seenTerminal>>

\* task_info: one status fetch of the task --id names
TaskInfo ==
  /\ pc = "run"
  /\ cmd = "task_info"
  /\ calls' = <<CallA("status", { ToString(idArg) })>>
  /\ \/ /\ tasks[idArg].state # "none"
        /\ task' = TaskInfoRecord(Snapshot(idArg, tasks[idArg]))
        /\ seenTerminal' = Observe(task')
        /\ out' = <<Msg(task'.state, task'.result)>>
        /\ exit' = "EX_OK"
        /\ UNCHANGED <<raised, err, at>>
     \/ /\ \E e \in RemoteErrors : raised' = Exc(e) /\ err' = e
        /\ at' = 1
        /\ UNCHANGED <<task, seenTerminal, out, exit>>
  /\ pc' = "done"
  /\ UNCHANGED <<invocation, found, answers, polls, pollFailed, tasks>>

\* the server moves a task on: pending, running, then succeeded or failed
\* with a result description; a finished task stays as it is
ServerAdvance(h) ==
  /\ \/ /\ tasks[h].state = "pending"
        /\ tasks' = [tasks EXCEPT ![h].state = "running"]
     \/ /\ tasks[h].state = "running"
        /\ \E st \in Terminal, d \in Descs :
             tasks' = [tasks EXCEPT ![h] = [state |-> st, desc |-> d]]
  /\ UNCHANGED <<invocation, pc, calls, out, exit, raised, found, err, at, answers, task,
                 polls, pollFailed, seenTerminal>>

Server == \E h \in Handles : ServerAdvance(h)

Next ==
  \/ Invoke
  \/ Exit
  \/ CheckOptions
  \/ List
  \/ Info
  \/ InstalledPackages
  \/ InstalledPackagesList
  \/ WaitForAsyncTask
  \/ InstalledPackagesReport
  \/ Tasks
  \/ TaskInfo
  \/ Releases
  \/ Facts
  \/ Register
  \/ RemoveDeletion
  \/ Unregister
  \/ Subscribe
  \/ Subscriptions
  \/ Unsubscribe
  \/ Update
  \/ Report
  \/ AddSystemGroups
  \/ RemoveSystemGroups
  \/ AddCustomInfo
  \/ ViewCustomInfo
  \/ UpdateCustomInfo
  \/ RemoveCustomInfo
  \/ Server

Spec == Init /\ [][Next]_vars

\* The poll loop fetches again and the report runs whenever they can, and the
\* server moves every task on.  Nothing makes a status fetch fail.
Fairness ==
  /\ WF_vars(StatusFetched)
  /\ WF_vars(InstalledPackagesReport)
  /\ \A h \in Handles : WF_vars(ServerAdvance(h))

FairSpec == Init /\ [][Next]_vars /\ Fairness

\* ------------------------------------------------------------------ claims

\* the subcommands that take a system reference
SysRefCmds ==
  { "info", "packages", "tasks", "releases", "facts", "unregister", "subscribe",
    "subscriptions", "unsubscribe", "update", "add_system_groups", "remove_system_groups",
    "add_custom_info", "view_custom_info", "update_custom_info", "remove_custom_info" }

\* the invocation was rejected by validation and issued no request
Rejected ==
  /\ pc = "done"
  /\ exit = "usage"
  /\ calls = <<>>
  /\ polls = 0
  /\ task = NoTask

Validated == pc \notin { "idle", "check" }

\* the requests of a sequence whose names are among names
CountCalls(seq, names) == Cardinality({ i \in DOMAIN seq : seq[i].name \in names })

\* the messages of a sequence whose kinds are among kinds
CountMsgs(seq, kinds) == Cardinality({ i \in DOMAIN seq : seq[i][1] \in kinds })

\* C1: a subcommand that takes a system reference rejects an invocation that
\* gives both name and uuid, and issues no request in it.
C1_NameAndUuidRejected ==
  (cmd \in SysRefCmds /\ { "name", "uuid" } \subseteq given /\ Validated) => Rejected

C1_Witness ==
  cmd = "info" /\ given = { "org", "name", "uuid" } /\ Rejected

\* C2 as stated: a subcommand that takes a system reference, releases
\* included, rejects an invocation that gives neither name nor uuid, and issues
\* no request in it.
C2_NeitherRejected ==
  (cmd \in SysRefCmds /\ given \cap { "name", "uuid" } = {} /\ Validated) => Rejected

\* C2 amended: the same for every such subcommand but releases; releases
\* rejects an invocation with neither name nor uuid unless it gives
\* environment, and then it looks the environment up and lists its releases.
C2_NeitherRejectedButReleasesOfEnvironment ==
  /\ (/\ cmd \in SysRefCmds
      /\ given \cap { "name", "uuid" } = {}
      /\ cmd = "releases" => "environment" \notin given
      /\ Validated) => Rejected
  /\ (cmd = "releases" /\ given = { "org", "environment" } /\ pc = "done")
       => /\ exit # "usage"
          /\ calls # <<>>
          /\ calls[1].name = "get_environment"
          /\ \A i \in DOMAIN calls :
               calls[i].name \in { "get_environment", "releases_for_environment" }

C2_Witness ==
  cmd = "unregister" /\ given = { "org", "environment" } /\ Rejected

\* C3: a packages invocation with a remote action that passed validation and
\* resolved its system has issued exactly one task-creating request, however
\* many names its list carries.
C3_OneTaskCreatingCall ==
  (/\ cmd = "packages"
   /\ given \cap remote_actions # {}
   /\ found = "one"
   /\ pc \in { "list", "poll", "report", "done" })
    => CountCalls(calls, TaskCreatingCalls) = 1

C3_Witness ==
  /\ cmd = "packages"
  /\ "install" \in given
  /\ listLen = MaxPkgs
  /\ listLen > 1
  /\ found = "one"
  /\ pc = "poll"
  /\ CountCalls(calls, TaskCreatingCalls) = 1

\* C4: a packages invocation whose task was observed succeeded ends with
\* EX_OK and has printed the task's result description exactly once.
C4_SucceededExitsOk ==
  (cmd = "packages" /\ pc = "done" /\ task.state = "succeeded")
    => /\ exit = "EX_OK"
       /\ raised = "none"
       /\ CountMsgs(out, { "result_description" }) = 1
       /\ \E i \in DOMAIN out : out[i] = Msg("result_description", tasks[task.id].desc)

C4_Witness ==
  cmd = "packages" /\ pc = "done" /\ task.state = "succeeded" /\ exit = "EX_OK"

\* C5: a packages invocation whose task was observed failed ends with
\* EX_DATAERR, raises nothing, and has printed the server's result description
\* exactly once.
C5_FailedExitsDataErr ==
  (cmd = "packages" /\ pc = "done" /\ task.state = "failed")
    => /\ exit = "EX_DATAERR"
       /\ raised = "none"
       /\ CountMsgs(out, { "result_description" }) = 1
       /\ \E i \in DOMAIN out : out[i] = Msg("result_description", tasks[task.id].desc)

C5_Witness ==
  cmd = "packages" /\ pc = "done" /\ task.state = "failed" /\ exit = "EX_DATAERR"

GroupCalls == { "system_groups", "add_system_groups", "remove_system_groups" }

\* C6: add_system_groups and remove_system_groups, when the lookup of the
\* system answers None, no match or several matches, end with EX_DATAERR and
\* issue neither the group lookup nor the add / remove request.
C6_GroupsLookupFailure ==
  (/\ cmd \in { "add_system_groups", "remove_system_groups" }
   /\ pc = "done"
   /\ found \in { "None", "zero", "many" })
    => /\ exit = "EX_DATAERR"
       /\ raised = "none"
       /\ CountCalls(calls, GroupCalls) = 0

C6_Witness ==
  /\ cmd \in { "add_system_groups", "remove_system_groups" }
  /\ pc = "done"
  /\ found = "many"
  /\ exit = "EX_DATAERR"
  /\ Len(calls) = 1

\* the subcommands that change a system the user names
MutatingCmds ==
  { "packages", "unregister", "subscribe", "unsubscribe", "update", "add_system_groups",
    "remove_system_groups", "add_custom_info", "update_custom_info", "remove_custom_info" }

\* the requests that change the server's state
MutatingCalls ==
  TaskCreatingCalls \cup
  { "register", "remove_consumer_deletion_record", "unregister", "subscribe",
    "unsubscribe", "unsubscribe_all", "unsubscribe_by_serial", "update",
    "add_system_groups", "remove_system_groups", "add_custom_info", "update_custom_info",
    "remove_custom_info" }

\* the requests that resolve a system reference
SystemLookups == { "get_system", "systems_by_org" }

\* C7: in a subcommand that changes a system given by name, every mutating
\* request comes after a lookup of the system that resolved it to exactly one;
\* after a failed or ambiguous lookup there is no mutating request.
C7_ResolveBeforeMutate ==
  (cmd \in MutatingCmds /\ "name" \in given)
    => \A i \in DOMAIN calls :
         calls[i].name \in MutatingCalls
           => /\ found = "one"
              /\ \E j \in 1 .. (i - 1) : calls[j].name \in SystemLookups

C7_Witness ==
  /\ cmd = "unregister"
  /\ "name" \in given
  /\ pc = "done"
  /\ found = "one"
  /\ Len(calls) = 2
  /\ calls[1].name = "get_system"
  /\ calls[2].name = "unregister"

\* C8: the poll loop ends, other than by a failed status request, only with a
\* terminal snapshot: a poll that fetched a pending or running task is followed
\* by another poll, however many came before; and packages reads the result
\* only of a terminal snapshot.
C8_PollsUntilTerminal ==
  /\ [](pc = "report" => task.state \in Terminal)
  /\ [](CountMsgs(out, { "result_description" }) > 0 => task.state \in Terminal)
  /\ [][(pc = "poll" /\ ~pollFailed')
          => (pc' = "poll" \/ (pc' = "report" /\ task'.state \in Terminal))]_vars

C8_Witness ==
  /\ cmd = "packages"
  /\ pc = "poll"
  /\ polls = MaxPolls
  /\ polls > 1
  /\ task.state = "running"

\* the invocation ended with the report of its finished task
Reported ==
  /\ pc = "done"
  /\ raised = "none"
  /\ task.state \in Terminal
  /\ exit = IF task.state = "succeeded" THEN "EX_OK" ELSE "EX_DATAERR"
  /\ \E i \in DOMAIN out : out[i] = Msg("result_description", task.desc)

\* C9: when the server moves every task on to a terminal state, a packages
\* invocation that waits for its task eventually ends: with the result
\* description printed and EX_OK or EX_DATAERR, unless a status request failed.
C9_PollEnds == (pc = "poll") ~> (pc = "done" /\ (pollFailed \/ Reported))

C9_Witness ==
  cmd = "packages" /\ polls > 1 /\ Reported

\* C10: once a client has fetched a task in a terminal state, every later
\* fetch of that task gives the same state and the same result description.
C10_TerminalFetchStable ==
  (task # NoTask /\ seenTerminal[task.id] # NoObs)
    => /\ task.state = seenTerminal[task.id].state
       /\ task.desc = seenTerminal[task.id].desc

C10_Witness ==
  /\ cmd = "task_info"
  /\ pc = "done"
  /\ task # NoTask
  /\ seenTerminal[task.id].again
  /\ task.state = "failed"

\* the exceptions a remote error raises
RemoteExceptions == { Exc(e) : e \in RemoteErrors }

\* C11: a request that fails with a remote error (a lookup, a mutating request
\* or a status poll) is the last request of its invocation: nothing is issued
\* after it, the same request included.  The invocation has then ended, either
\* with an exit code or with that very error raised; and every remote error
\* that escapes is one a request failed with.
C11_NoRetry ==
  /\ [](err # "none"
          => /\ pc = "done"
             /\ at = Len(calls)
             /\ \/ raised = Exc(err) /\ exit = "unset"
                \/ raised = "none" /\ exit \in { "EX_OK", "EX_DATAERR" })
  /\ [](raised \in RemoteExceptions => err # "none")
  /\ [][(err # "none" /\ pc' # "idle")
          => (calls' = calls /\ polls' = polls /\ task' = task /\ pc' = pc)]_vars

C11_Witness ==
  /\ cmd = "unregister"
  /\ pc = "done"
  /\ err = "e500"
  /\ at = 2
  /\ calls[2].name = "unregister"
  /\ raised = "ServerRequestError500"

\* C12: in unregister, a lookup of the system that fails with status 404 ends
\* the invocation with EX_DATAERR and nothing raised; a lookup that fails with
\* another status ends it with that error raised; in both the unregister
\* request is not issued.
C12_UnregisterLookupFails ==
  (cmd = "unregister" /\ pc = "done")
    => /\ found = "e404"
            => /\ exit = "EX_DATAERR"
               /\ raised = "none"
               /\ CountCalls(calls, { "unregister" }) = 0
       /\ found = "e500"
            => /\ exit = "unset"
               /\ raised = "ServerRequestError500"
               /\ err = "e500"
               /\ CountCalls(calls, { "unregister" }) = 0

C12_Witness ==
  /\ cmd = "unregister"
  /\ pc = "done"
  /\ found = "e404"
  /\ exit = "EX_DATAERR"
  /\ Len(calls) = 1
  /\ calls[1].name = "get_system"

\* a message was printed that carries the name or the uuid the user supplied
NamesSystem == \E i \in DOMAIN out : out[i][2] \in given \cap { "name", "uuid" }

\* C13: an invocation that ends with the data-error exit code (after a lookup
\* that was not found, failed or was ambiguous, or after a failure the server
\* reported) has printed a message that contains the name or the uuid the user
\* supplied for the system.
C13_FailureNamesSystem ==
  (pc = "done" /\ exit = "EX_DATAERR") => NamesSystem

\* the messages that report a failure the server answered with
FailureMsgs ==
  { "Could not register system", "Could not update system",
    "Could not add Custom Information", "Could not update Custom Information",
    "Could not remove Custom Information", "Remote action failed:" }

\* C14: an invocation that ran and raised nothing ends with the exit code 0 or
\* with the data-error code, and with the data-error code whenever the server
\* reported that the action failed.
C14_ExitCodes ==
  (pc = "done" /\ raised = "none" /\ exit # "usage")
    => /\ ExitCode(exit) \in { "EX_OK", "EX_DATAERR" }
       /\ CountMsgs(out, FailureMsgs) > 0 => ExitCode(exit) = "EX_DATAERR"

\* C15: a packages invocation that gives more than one remote action is
\* rejected by validation and issues no request; and no invocation issues two
\* task-creating requests.
C15_OneRemoteAction ==
  /\ (cmd = "packages" /\ Cardinality(given \cap remote_actions) > 1 /\ Validated)
       => Rejected
  /\ CountCalls(calls, TaskCreatingCalls) <= 1

C15_Witness ==
  /\ cmd = "packages"
  /\ given = { "org", "name", "install", "remove_groups" }
  /\ Rejected

\* the messages of the report of a finished task
ReportMsgs == { "Remote action finished:", "Remote action failed:", "result_description" }

\* C16: while the poll of a packages task runs the invocation issues no other
\* request and prints nothing; the task's success flag and result description
\* are read, and the report printed, only after the poll has fetched the task
\* at least once and found it finished.
C16_PollThenReport ==
  /\ [][pc = "poll" => (calls' = calls /\ out' = out /\ exit' = exit)]_vars
  /\ [][(pc # "report" /\ pc' = "report")
          => (pc = "poll" /\ polls' > 0 /\ task'.state \in Terminal)]_vars
  /\ [](CountMsgs(out, ReportMsgs) > 0
          => (pc = "done" /\ polls > 0 /\ task.state \in Terminal))

C16_Witness ==
  /\ cmd = "packages"
  /\ pc = "done"
  /\ polls = MaxPolls
  /\ task.state = "failed"
  /\ CountMsgs(out, ReportMsgs) = 2
  /\ Len(calls) = 2

\* C17: releases given a uuid prints the releases the per-system request
\* answered for that uuid; the environment-wide request is issued, and its
\* answer printed, only when neither name nor uuid is given.
C17_ReleasesOfSystem ==
  (cmd = "releases" /\ given \cap { "name", "uuid" } # {})
    => /\ CountCalls(calls, { "releases_for_environment", "get_environment" }) = 0
       /\ \A i \in DOMAIN out : out[i] # Msg("Available releases", "environment")
       /\ (pc = "done" /\ exit = "EX_OK" /\ "uuid" \in given)
            => /\ calls = <<CallA("releases_for_system", { "uuid" })>>
               /\ out = <<Msg("Available releases", "system uuid")>>

\* C18: a packages invocation without a remote action issues no task-creating
\* request and no status poll, and when it ends without an error it has
\* fetched the installed packages exactly once and returned EX_OK; a packages
\* invocation with a remote action never fetches the installed packages.
C18_ListOrAct ==
  /\ (cmd = "packages" /\ given \cap remote_actions = {})
       => /\ CountCalls(calls, TaskCreatingCalls) = 0
          /\ polls = 0
          /\ task = NoTask
          /\ pc \notin { "poll", "report" }
          /\ CountCalls(calls, { "packages" }) <= 1
          /\ (pc = "done" /\ raised = "none" /\ exit # "usage")
               => (CountCalls(calls, { "packages" }) = 1 /\ exit = "EX_OK")
  /\ (cmd = "packages" /\ given \cap remote_actions # {})
       => (CountCalls(calls, { "packages" }) = 0 /\ pc # "list")

C18_Witness ==
  /\ cmd = "packages"
  /\ given = { "org", "uuid" }
  /\ pc = "done"
  /\ exit = "EX_OK"
  /\ Len(calls) = 2
  /\ calls[2].name = "packages"
  /\ CountMsgs(out, { "Package Information" }) = 1

\* the options of update that name a field to change
UpdateOptions == { "new_name", "description", "location", "release", "sla", "new_environment" }

\* C19: an update invocation that ends without an error has issued exactly
\* one update request, after the lookup of the system, and the fields of that
\* request are exactly the ones whose options were given; an environment is
\* looked up only when new_environment is given.
C19_UpdateFields ==
  (cmd = "update" /\ pc = "done")
    => /\ (raised = "none" /\ exit # "usage")
            => /\ CountCalls(calls, { "update" }) = 1
               /\ calls[1].name = "get_system"
               /\ calls[Len(calls)] = CallA("update", given \cap UpdateOptions)
       /\ "new_environment" \notin given => CountCalls(calls, { "get_environment" }) = 0

UnsubscribeOptions == { "entitlement", "serial", "all" }

UnsubscribeRequests == { "unsubscribe", "unsubscribe_by_serial", "unsubscribe_all" }

\* the request that belongs to an unsubscribe option
UnsubscribeKind(o) ==
  CASE o = "all" -> "unsubscribe_all"
    [] o = "serial" -> "unsubscribe_by_serial"
    [] o = "entitlement" -> "unsubscribe"

\* C20: unsubscribe is rejected unless exactly one of entitlement, serial and
\* all is given; a validated invocation whose system is known (by uuid, or by
\* a name lookup that resolved it) issues exactly one unsubscribe request, the
\* one that belongs to the option given, and nothing after it; with a uuid no
\* lookup of the system is made.
C20_UnsubscribeKind ==
  cmd = "unsubscribe"
    => /\ (Validated /\ Cardinality(given \cap UnsubscribeOptions) # 1) => Rejected
       /\ (pc = "done" /\ exit # "usage" /\ ("uuid" \in given \/ found = "one"))
            => /\ CountCalls(calls, UnsubscribeRequests) = 1
               /\ \E o \in given \cap UnsubscribeOptions :
                    calls[Len(calls)].name = UnsubscribeKind(o)
       /\ "uuid" \in given => CountCalls(calls, SystemLookups) = 0
       /\ (pc = "done" /\ exit # "usage" /\ "uuid" \notin given)
            => calls[1].name = "get_system"

C20_Witness ==
  /\ cmd = "unsubscribe"
  /\ given = { "org", "uuid", "serial" }
  /\ pc = "done"
  /\ exit = "EX_OK"
  /\ calls = <<Call("unsubscribe_by_serial")>>

\* the success messages of the system-group subcommands
GroupSuccessMsgs ==
  { "Successfully added system groups to system",
    "Successfully removed system groups from system" }

\* C21: in add_system_groups and remove_system_groups with the system resolved
\* (answers[1] is the lookup of the system, answers[2] the lookup of the groups,
\* answers[3] the add / remove request): when the group lookup answers None the
\* invocation returns EX_DATAERR without the add / remove request; when that
\* request answers None it returns EX_DATAERR and prints no success message;
\* otherwise it prints the success message once and returns EX_OK.
C21_GroupsOutcome ==
  (/\ cmd \in { "add_system_groups", "remove_system_groups" }
   /\ pc = "done"
   /\ raised = "none"
   /\ found = "one")
    => /\ Len(answers) \in { 2, 3 }
       /\ Len(answers) = 2 <=> answers[2] = "None"
       /\ answers[2] = "None"
            => /\ exit = "EX_DATAERR"
               /\ CountCalls(calls, { "add_system_groups", "remove_system_groups" }) = 0
               /\ CountMsgs(out, GroupSuccessMsgs) = 0
       /\ Len(answers) = 3
            => /\ calls[3].name = cmd
               /\ CountCalls(calls, { "add_system_groups", "remove_system_groups" }) = 1
               /\ IF answers[3] = "None"
                    THEN exit = "EX_DATAERR" /\ CountMsgs(out, GroupSuccessMsgs) = 0
                    ELSE exit = "EX_OK" /\ CountMsgs(out, GroupSuccessMsgs) = 1

C21_Witness ==
  /\ cmd = "remove_system_groups"
  /\ pc = "done"
  /\ answers = <<"one", "list", "None">>
  /\ exit = "EX_DATAERR"
  /\ out = <<>>
  /\ Len(calls) = 3

\* the subcommands that only read
ReadOnlyCmds ==
  { "list", "info", "tasks", "task_info", "releases", "facts", "subscriptions",
    "view_custom_info", "report" }

\* C22: an invocation issues at most one request that changes the server's
\* state, and an invocation of a read-only subcommand issues none and creates
\* no task on the server.
C22_OneMutation ==
  /\ [](CountCalls(calls, MutatingCalls) <= 1)
  /\ [](cmd \in ReadOnlyCmds => CountCalls(calls, MutatingCalls) = 0)
  /\ [][(cmd \in ReadOnlyCmds)
          => (\A h \in Handles : tasks[h].state = "none" => tasks'[h].state = "none")]_vars

C22_Witness ==
  /\ cmd = "subscribe"
  /\ pc = "done"
  /\ exit = "EX_OK"
  /\ Len(calls) = 2
  /\ calls[2].name = "subscribe"
  /\ CountCalls(calls, MutatingCalls) = 1

=============================================================================
